---- MODULE Spec2Model ----
(***************************************************************************)
(* A model of the presence tracker of src/server.js.  The file holds four  *)
(* drafts of the same service, one after the other:                        *)
(*   draft 1  lines   1-328  two-sample confirmation monitor, one identity *)
(*   draft 2  lines 330-551  multi-identity monitor, cooldown gate         *)
(*   draft 3  lines 553-765  single-sample monitor, cooldown gate          *)
(*   draft 4  lines 767-983  ledger-comparing monitor, check at start      *)
(* The variable draft says which one runs.  Time is Date.now() in          *)
(* milliseconds; the clock moves in steps of TimeStep and never passes a   *)
(* timer that is due.  A call to an external collaborator (Presence        *)
(* Source, Status Ledger) is split into the step that issues it and the    *)
(* step in which its promise settles; any amount of time may pass between  *)
(* the two, since no call of the program sets a timeout.                   *)
(***************************************************************************)
EXTENDS Integers, Sequences, FiniteSets, TLC

VARIABLES
    draft,               \* which draft of the service is running (1..4)
    now,                 \* Date.now()
    steamId,             \* the identity init() resolved ("undefined" before, "null" if none)
    initPc,              \* where init() is suspended; "done": it has returned;
                         \* "exited": the process has ended
    lastKnownStatus,     \* "null", "online" or "offline"
    lastMessageTime,
    isMonitoringActive,
    monitoringInterval,  \* the handle startMonitoring stored last (0: null)
    intervals,           \* the runtime's live setInterval timers: [id, due]
    startTimers,         \* due times of the pending setTimeout(startMonitoring, 2000)
    startLookups,        \* draft 2: start commands waiting for User.findOne
    ticks,               \* the monitorStatus invocations and start checks in flight
    users,               \* the Status Ledger's User collection
    presence,            \* the tracked identity's real status at the Presence Source
    sink,                \* every dispatch attempted on the Notification Sink
    changes,             \* history: how often the real status has changed
    confirmed,           \* history: the transitions the monitor recorded
    pairs,               \* history: the agreed status of each completed pair
    allAgree,            \* history: every answer held a player, every pair agreed
    lastSample,          \* history: the status the source answered last
    alternating,         \* history: every answer held a player and differed from the last
    queries,             \* history: how many first and second samples were issued
    calls,               \* history: the last two calls of start/stopMonitoring
    count,               \* draft 1: the bati command's escalation counter
    batiTimer,           \* draft 1: the handle the bati command stored last (0: null)
    timeouts,            \* the runtime's pending bati reset timers: [id, due]
    lastBati,            \* history: when the bati command was last invoked (0: never)
    stopped              \* history: a stop command was handled, no start or restart since

fixed == <<draft, steamId, initPc>>
sess == <<isMonitoringActive, monitoringInterval, intervals>>
gate == <<lastMessageTime, sink>>
world == <<presence, changes>>
pairHist == <<pairs, allAgree>>
sampleHist == <<lastSample, alternating>>
bati == <<count, batiTimer, timeouts, lastBati>>

vars == <<fixed, now, lastKnownStatus, sess, startTimers, startLookups, ticks,
          users, gate, world, confirmed, pairHist, sampleHist, queries, calls,
          bati, stopped>>

-----------------------------------------------------------------------------
(* Program constants *)

RETRIES == 3
RETRY_DELAY == 3000
POLL_INTERVAL == 5000
CONFIRM_DELAY == 2000
RESTART_DELAY == 2000
COOLDOWN == 30 * 1000
BATI_RESET == 60000

(* Bounds of the model *)

MaxSteps == 12      \* clock steps explored
MaxTimers == 2      \* pending restart timers
MaxLookups == 1     \* draft 2: start commands waiting for their lookup
MaxMsgs == 2        \* dispatches (draft 4: records) after which no more are requested
MaxChecks == 1      \* draft 4: tasks in flight beyond which no start is issued
MaxChanges == 1     \* draft 4: changes of the real status
MaxRegs == 1        \* draft 2: register commands in flight
MaxBati == 2        \* draft 1: value of count at which no counted bati arrives
MaxPairs == 1       \* bati runs: agreeing pairs the source lets the monitor see
MaxTicks == 3       \* draft 1, tick by tick: ticks followed
MaxFailTicks == 1   \* draft 1, tick by tick: ticks during which calls may fail
EarlySteps == 7     \* drafts 1 and 3 from the start of the process: clock steps

(* The grid of the clock divides every delay of the draft: drafts 1 to 3   *)
(* wait 2000 ms and 5000 ms, draft 4 waits 5000 ms only.                   *)
TimeStep(d) == IF d = 4 THEN POLL_INTERVAL ELSE CONFIRM_DELAY \div 2
Epoch == COOLDOWN   \* the clock at process start: Date.now() - 0 >= COOLDOWN
MaxTime == Epoch + MaxSteps * TimeStep(1)
(* Draft 3 is followed for one COOLDOWN more, so that a second dispatch    *)
(* can pass its gate.                                                      *)
Horizon(d) == IF d = 3 THEN MaxTime + COOLDOWN ELSE MaxTime

Status == {"online", "offline"}
PersonaStates == {0, 1, 3}

(* What the Presence Source can answer: the call throws (ok = FALSE), or  *)
(* it returns a players array that is empty or holds one player.          *)
Responses ==
    {[ok |-> FALSE, players |-> <<>>], [ok |-> TRUE, players |-> <<>>]}
    \cup {[ok |-> TRUE, players |-> <<[personastate |-> p]>>] : p \in PersonaStates}

HasPlayer(resp) == Len(resp.players) > 0

(* personastate === 1 ? 'online' : 'offline' *)
StatusOf(personastate) == IF personastate = 1 THEN "online" ELSE "offline"

Remove(seq, i) == SubSeq(seq, 1, i - 1) \o SubSeq(seq, i + 1, Len(seq))

-----------------------------------------------------------------------------
(* The Status Ledger *)

NewUser == [steamId |-> "id", steamStatus |-> "offline", statusHistory |-> <<>>]

(* draft 2: the senders that register, and the record register creates    *)
(* for one (line 539)                                                      *)
TelegramIds == {1, 2}

NewUser2(tg) == [telegramId |-> tg, steamId |-> "id",
                 steamStatus |-> "offline", statusHistory |-> <<>>]

HasUser(coll, id) == \E i \in 1..Len(coll) : coll[i].steamId = id

FirstUser(coll, id) == CHOOSE i \in 1..Len(coll) :
    coll[i].steamId = id /\ \A j \in 1..(i - 1) : coll[j].steamId # id

(* A history entry {status, date, time}.  date and time are read off the   *)
(* clock when the transition is recorded; the model keeps in their place   *)
(* the ordinal of the recording, which orders entries as the clock does.   *)
Entry(status, seq) == [status |-> status, seq |-> seq]

NoEntry == Entry("null", 0)

(* an update that pushes the entry and leaves steamStatus as it was *)
pushStatus_pushOnly(coll, id, entry) ==
    LET i == CHOOSE k \in 1..Len(coll) : coll[k].steamId = id IN
    [coll EXCEPT ![i] = [@ EXCEPT !.statusHistory = Append(@, entry)]]

(* one atomic update of the first matching record: steamStatus is set and  *)
(* the entry is pushed                                                     *)
pushStatus(coll, id, entry) ==
    LET i == FirstUser(coll, id) IN
    [coll EXCEPT ![i] = [@ EXCEPT !.steamStatus = entry.status,
                                  !.statusHistory = Append(@, entry)]]

(* User.findOneAndUpdate({steamId}, {steamStatus, $push: {statusHistory}}, *)
(* {new: true, upsert: true}): the record is created when none matches.    *)
findOneAndUpdate(coll, id, entry) ==
    IF HasUser(coll, id) THEN pushStatus(coll, id, entry)
    ELSE Append(coll, [steamId |-> id, steamStatus |-> entry.status,
                       statusHistory |-> <<entry>>])

(* user.save() of a document whose steamStatus was set and whose           *)
(* statusHistory was pushed to: the same update, of the stored record      *)
saveUser(coll, id, entry) ==
    IF HasUser(coll, id) THEN pushStatus(coll, id, entry) ELSE coll

-----------------------------------------------------------------------------
(* The monitoring session: isMonitoringActive, monitoringInterval and the  *)
(* runtime's table of live interval timers, as one record.                 *)

Sess == [active |-> isMonitoringActive, handle |-> monitoringInterval,
         live |-> intervals]

NoSess == [active |-> FALSE, handle |-> 0, live |-> {}]

clearInterval(live, h) == {t \in live : t.id # h}

(* setInterval returns a handle no live timer has and the variable does    *)
(* not hold.                                                               *)
FreshHandle(s) == CHOOSE h \in 1..(Cardinality(s.live) + 2) :
    h # s.handle /\ \A t \in s.live : t.id # h

setInterval(s, t) ==
    LET h == FreshHandle(s) IN
    [s EXCEPT !.handle = h,
              !.live = s.live \cup {[id |-> h, due |-> t + POLL_INTERVAL]}]

(* stopMonitoring without the clearInterval *)
stopMonitoring_noClear(s) ==
    IF ~s.active THEN s ELSE [s EXCEPT !.active = FALSE]

(* the same in every draft: lines 198-203, 485-491, 718-724, 948-954 *)
stopMonitoring(s) ==
    IF ~s.active THEN s
    ELSE [s EXCEPT !.live = clearInterval(s.live, s.handle), !.active = FALSE]

(* draft 1 *)
startMonitoring1(s, t) ==
    IF s.active THEN s
    ELSE [setInterval(stopMonitoring(s), t) EXCEPT !.active = TRUE]

(* startMonitoring without the isMonitoringActive test *)
startMonitoring2_noGuard(s, t) == [setInterval(s, t) EXCEPT !.active = TRUE]

(* drafts 2 and 3: lines 475-483 and 710-716 *)
startMonitoring2(s, t) ==
    IF ~s.active THEN [setInterval(s, t) EXCEPT !.active = TRUE] ELSE s

(* draft 4, up to its first await: lines 911-915 *)
startMonitoring4(s, t) ==
    IF ~s.active THEN [setInterval(s, t) EXCEPT !.active = TRUE] ELSE s

(* draft 4: a call that starts monitoring goes on to check the status at   *)
(* once (lines 917-945)                                                    *)
StartsCheck(d, s) == d = 4 /\ ~s.active

startMonitoring(d, s, t) ==
    CASE d = 1 -> startMonitoring1(s, t)
      [] d \in {2, 3} -> startMonitoring2(s, t)
      [] d = 4 -> startMonitoring4(s, t)

SetSess(s) ==
    /\ isMonitoringActive' = s.active
    /\ monitoringInterval' = s.handle
    /\ intervals' = s.live

Called(op) == calls' = IF Len(calls) < 2 THEN Append(calls, op)
                       ELSE <<calls[2], op>>

(* every variable at its value before anything ran, for draft d with the   *)
(* session s, the ledger coll and the tracked identity's real status       *)
InitFrom(d, s, coll, tasks, log, real, id, pc) ==
    /\ draft = d
    /\ now = Epoch
    /\ steamId = id
    /\ initPc = pc
    /\ lastKnownStatus = "null"
    /\ lastMessageTime = 0
    /\ isMonitoringActive = s.active
    /\ monitoringInterval = s.handle
    /\ intervals = s.live
    /\ startTimers = <<>>
    /\ startLookups = 0
    /\ ticks = tasks
    /\ users = coll
    /\ presence = real
    /\ sink = <<>>
    /\ changes = 0
    /\ confirmed = <<>>
    /\ pairs = <<>>
    /\ allAgree = TRUE
    /\ lastSample = "null"
    /\ alternating = TRUE
    /\ queries = [first |-> 0, second |-> 0]
    /\ calls = log
    /\ count = 0
    /\ batiTimer = 0
    /\ timeouts = {}
    /\ lastBati = 0
    /\ stopped = FALSE

(* the same once init() has resolved the identity and returned *)
InitAt(d, s, coll, tasks, log, real) ==
    InitFrom(d, s, coll, tasks, log, real, "id", "done")

InitWith(d, s, coll, tasks, log) == InitAt(d, s, coll, tasks, log, "offline")

-----------------------------------------------------------------------------
(* The clock: it moves when no timer is due *)

(* the process has not been terminated *)
Running == initPc # "exited"

NoTimerDue ==
    /\ \A t \in intervals : t.due > now
    /\ IF startTimers = <<>> THEN TRUE ELSE Head(startTimers) > now
    /\ \A i \in 1..Len(ticks) : ticks[i].pc = "wait" => ticks[i].due > now
    /\ \A t \in timeouts : t.due > now

Advance ==
    /\ now + TimeStep(draft) <= Horizon(draft)
    /\ NoTimerDue
    /\ now' = now + TimeStep(draft)
    /\ UNCHANGED <<fixed, lastKnownStatus, sess, startTimers, startLookups,
                   ticks, users, gate, world, confirmed, pairHist, sampleHist,
                   queries, calls, bati, stopped>>

-----------------------------------------------------------------------------
(* The commands and timers that start and stop monitoring *)

(* restart, drafts 1 to 3 (lines 291-295, 510-514, 740-744): stop now,     *)
(* start from a one-shot timer                                             *)
CmdRestart ==
    /\ Running
    /\ draft \in {1, 2, 3}
    /\ Len(startTimers) < MaxTimers
    /\ SetSess(stopMonitoring(Sess))
    /\ Called("stop")
    /\ startTimers' = Append(startTimers, now + RESTART_DELAY)
    /\ stopped' = FALSE
    /\ UNCHANGED <<fixed, now, lastKnownStatus, startLookups, ticks, users,
                   gate, world, confirmed, pairHist, sampleHist, queries, bati>>

(* the restart delay has elapsed: the timer calls startMonitoring *)
StartTimerFires ==
    /\ startTimers # <<>>
    /\ Head(startTimers) <= now
    /\ SetSess(startMonitoring(draft, Sess, now))
    /\ Called("start")
    /\ startTimers' = Tail(startTimers)
    /\ UNCHANGED <<fixed, now, lastKnownStatus, startLookups, ticks, users,
                   gate, world, confirmed, pairHist, sampleHist, queries, bati,
                   stopped>>

(* stop, drafts 2 to 4 (lines 505-508, 735-738, 965-968) *)
CmdStop ==
    /\ Running
    /\ draft \in {2, 3, 4}
    /\ SetSess(stopMonitoring(Sess))
    /\ Called("stop")
    /\ stopped' = TRUE
    /\ UNCHANGED <<fixed, now, lastKnownStatus, startTimers, startLookups,
                   ticks, users, gate, world, confirmed, pairHist, sampleHist,
                   queries, bati>>

-----------------------------------------------------------------------------
(* Draft 1: sendTelegramMessage (lines 73-82).  The cooldown test of line  *)
(* 74 is a comment, so every call stamps lastMessageTime and dispatches;   *)
(* a dispatch the sink rejects is caught and logged inside the function.   *)

(* a rejected dispatch is attempted once more *)
sendTelegramMessage1_retry(msg, seq) ==
    /\ lastMessageTime' = now
    /\ \E failed \in BOOLEAN :
          LET d == [msg |-> msg, seq |-> seq, failed |-> failed] IN
          sink' = IF failed THEN sink \o <<d, d>> ELSE Append(sink, d)

sendTelegramMessage1(msg, seq) ==
    /\ lastMessageTime' = now
    /\ \E failed \in BOOLEAN :
          sink' = Append(sink, [msg |-> msg, seq |-> seq, failed |-> failed])

(* fetchStatus maps the answer of a call that did not throw (line 157):    *)
(* an answer without a player maps to offline                              *)
fetchStatus(resp) ==
    IF HasPlayer(resp) THEN StatusOf(resp.players[1].personastate)
    ELSE "offline"

(* A monitorStatus invocation in flight: where it is suspended, the status *)
(* it sampled first, when its wait ends, the ledger status it read, the    *)
(* entry it is writing, and (history) whether its first answer held a      *)
(* player record.                                                          *)
Tick(pc, first, due, doc, entry, player) ==
    [pc |-> pc, first |-> first, due |-> due, doc |-> doc, entry |-> entry,
     player |-> player]

Sampled(resp) ==
    /\ lastSample' = fetchStatus(resp)
    /\ alternating' = (alternating /\ HasPlayer(resp)
                                   /\ lastSample # fetchStatus(resp))

(* after init(): the identity is resolved, createUser has found or tried   *)
(* to save the record, and startMonitoring has been called (line 320)      *)
InitD1 ==
    \E coll \in {<<>>, <<NewUser>>} :
        InitWith(1, startMonitoring1(NoSess, Epoch), coll, <<>>, <<"start">>)

(* line 164 *)
IsTransition(firstCheck, secondCheck, last) ==
    firstCheck = secondCheck /\ last # firstCheck

(* the interval timer fires: monitorStatus starts and issues the first    *)
(* query                                                                   *)
IntervalFires1 ==
    /\ draft = 1
    /\ \E t \in intervals :
        /\ t.due <= now
        /\ intervals' = (intervals \ {t}) \cup {[t EXCEPT !.due = @ + POLL_INTERVAL]}
    /\ ticks' = Append(ticks, Tick("first", "null", 0, "null", NoEntry, FALSE))
    /\ queries' = [queries EXCEPT !.first = @ + 1]
    /\ UNCHANGED <<fixed, now, lastKnownStatus, isMonitoringActive,
                   monitoringInterval, startTimers, startLookups, users, gate,
                   world, confirmed, pairHist, sampleHist, calls, bati,
                   stopped>>

(* the first query settles, and a throw, instead of being caught, ends     *)
(* monitoring                                                              *)
FirstReturns1_throwStops ==
    /\ draft = 1
    /\ \E i \in 1..Len(ticks), resp \in Responses :
        /\ ticks[i].pc = "first"
        /\ IF resp.ok
           THEN /\ ticks' = [ticks EXCEPT ![i] =
                        Tick("wait", fetchStatus(resp), now + CONFIRM_DELAY,
                             "null", NoEntry, HasPlayer(resp))]
                /\ Sampled(resp)
                /\ allAgree' = (allAgree /\ HasPlayer(resp))
                /\ UNCHANGED sess
           ELSE /\ ticks' = Remove(ticks, i)
                /\ allAgree' = FALSE
                /\ SetSess(NoSess)
                /\ UNCHANGED sampleHist
    /\ UNCHANGED <<fixed, now, lastKnownStatus, startTimers, startLookups,
                   users, gate, world, confirmed, pairs, queries, calls, bati,
                   stopped>>

(* the first query settles; a throw ends the tick in the catch of line 183 *)
FirstReturns1 ==
    /\ draft = 1
    /\ \E i \in 1..Len(ticks), resp \in Responses :
        /\ ticks[i].pc = "first"
        /\ IF resp.ok
           THEN /\ ticks' = [ticks EXCEPT ![i] =
                        Tick("wait", fetchStatus(resp), now + CONFIRM_DELAY,
                             "null", NoEntry, HasPlayer(resp))]
                /\ Sampled(resp)
                /\ allAgree' = (allAgree /\ HasPlayer(resp))
           ELSE /\ ticks' = Remove(ticks, i)
                /\ allAgree' = FALSE
                /\ UNCHANGED sampleHist
    /\ UNCHANGED <<fixed, now, lastKnownStatus, sess, startTimers,
                   startLookups, users, gate, world, confirmed, pairs, queries,
                   calls, bati, stopped>>

(* the 2000 ms wait of line 161 is over: the second query is issued *)
WaitElapsed1 ==
    /\ draft = 1
    /\ \E i \in 1..Len(ticks) :
        /\ ticks[i].pc = "wait"
        /\ ticks[i].due <= now
        /\ ticks' = [ticks EXCEPT ![i].pc = "second"]
    /\ queries' = [queries EXCEPT !.second = @ + 1]
    /\ UNCHANGED <<fixed, now, lastKnownStatus, sess, startTimers,
                   startLookups, users, gate, world, confirmed, pairHist,
                   sampleHist, calls, bati, stopped>>

(* the second query settles: lines 162-180, up to the await of the write. *)
(* sendTelegramMessage is called, not awaited, before the write is issued. *)
SecondReturns1 ==
    /\ draft = 1
    /\ \E i \in 1..Len(ticks), resp \in Responses :
        /\ ticks[i].pc = "second"
        /\ IF ~resp.ok
           THEN /\ ticks' = Remove(ticks, i)
                /\ allAgree' = FALSE
                /\ UNCHANGED <<lastKnownStatus, gate, confirmed, pairs,
                               sampleHist>>
           ELSE LET firstCheck == ticks[i].first
                    secondCheck == fetchStatus(resp)
                    seq == Len(confirmed) + 1 IN
                /\ Sampled(resp)
                /\ allAgree' = (allAgree /\ HasPlayer(resp)
                                         /\ firstCheck = secondCheck)
                /\ pairs' = IF firstCheck = secondCheck
                            THEN Append(pairs, firstCheck) ELSE pairs
                /\ IF IsTransition(firstCheck, secondCheck, lastKnownStatus)
                   THEN /\ lastKnownStatus' = firstCheck
                        /\ sendTelegramMessage1(firstCheck, seq)
                        /\ ticks' = [ticks EXCEPT ![i] =
                               Tick("write", firstCheck, 0, "null",
                                    Entry(firstCheck, seq), ticks[i].player)]
                        /\ confirmed' = Append(confirmed,
                               [status |-> firstCheck, prev |-> lastKnownStatus,
                                first |-> firstCheck, second |-> secondCheck,
                                players |-> ticks[i].player /\ HasPlayer(resp)])
                   ELSE /\ ticks' = Remove(ticks, i)
                        /\ UNCHANGED <<lastKnownStatus, gate, confirmed>>
    /\ UNCHANGED <<fixed, now, sess, startTimers, startLookups, users, world,
                   queries, calls, bati, stopped>>

(* findOneAndUpdate settles: applied, or rejected and caught at line 183 *)
WriteReturns1 ==
    /\ draft = 1
    /\ \E i \in 1..Len(ticks), ok \in BOOLEAN :
        /\ ticks[i].pc = "write"
        /\ users' = IF ok THEN findOneAndUpdate(users, steamId, ticks[i].entry)
                    ELSE users
        /\ ticks' = Remove(ticks, i)
    /\ UNCHANGED <<fixed, now, lastKnownStatus, sess, startTimers,
                   startLookups, gate, world, confirmed, pairHist, sampleHist,
                   queries, calls, bati, stopped>>

(* GET /status (lines 306-313) *)
StatusEndpoint1 ==
    /\ draft = 1
    /\ Len(sink) < MaxMsgs
    /\ sendTelegramMessage1("status", 0)
    /\ UNCHANGED <<fixed, now, lastKnownStatus, sess, startTimers,
                   startLookups, ticks, users, world, confirmed, pairHist,
                   sampleHist, queries, calls, bati, stopped>>

Monitor1 ==
    \/ IntervalFires1 \/ FirstReturns1 \/ WaitElapsed1 \/ SecondReturns1
    \/ WriteReturns1

(* Draft 1's monitor and its restart command *)
NextD1 == Monitor1 \/ CmdRestart \/ StartTimerFires \/ Advance

SpecD1 == InitD1 /\ [][NextD1]_vars

(* Draft 1's senders: the monitor and the /status endpoint *)
NextD1Senders == Monitor1 \/ StatusEndpoint1 \/ Advance

SpecD1Senders == InitD1 /\ [][NextD1Senders]_vars

-----------------------------------------------------------------------------
(* Draft 1: the bati command (lines 247-287).  While lastKnownStatus is    *)
(* online it only replies; otherwise it replies by count, increments       *)
(* count, clears the timer batiTimer names and sets a new one that, after  *)
(* BATI_RESET, zeroes count and sends a message.  The replies (ctx.reply)  *)
(* change nothing and are left out.                                        *)

clearTimeout(pending, h) == {t \in pending : t.id # h}

(* setTimeout returns a handle no pending timer has and batiTimer does not *)
(* hold                                                                    *)
FreshTimeout == CHOOSE h \in 1..(Cardinality(timeouts) + 2) :
    h # batiTimer /\ \A t \in timeouts : t.id # h

CmdBati ==
    /\ draft = 1
    /\ Running
    /\ lastBati' = now
    /\ IF lastKnownStatus = "online"
       THEN UNCHANGED <<count, batiTimer, timeouts>>
       ELSE /\ count < MaxBati
            /\ count' = count + 1
            /\ batiTimer' = FreshTimeout
            /\ timeouts' = clearTimeout(timeouts, batiTimer)
                              \cup {[id |-> FreshTimeout, due |-> now + BATI_RESET]}
    /\ UNCHANGED <<fixed, now, lastKnownStatus, sess, startTimers,
                   startLookups, ticks, users, gate, world, confirmed,
                   pairHist, sampleHist, queries, calls, stopped>>

(* the reset timer fires (lines 280-283); batiTimer keeps its handle *)
BatiTimerFires ==
    /\ draft = 1
    /\ \E t \in timeouts :
        /\ t.due <= now
        /\ timeouts' = timeouts \ {t}
    /\ count' = 0
    /\ sendTelegramMessage1("bati", 0)
    /\ UNCHANGED <<fixed, now, lastKnownStatus, sess, startTimers,
                   startLookups, ticks, users, world, confirmed, pairHist,
                   sampleHist, queries, calls, batiTimer, lastBati, stopped>>

(* the times at which a timer of the runtime is due *)
Dues ==
    {t.due : t \in intervals} \cup {t.due : t \in timeouts}
    \cup {startTimers[k] : k \in 1..Len(startTimers)}
    \cup {ticks[i].due : i \in {j \in 1..Len(ticks) : ticks[j].pc = "wait"}}

HorizonBati == Epoch + BATI_RESET

(* the clock moves to the time at which the next timer is due *)
AdvanceToTimer ==
    /\ NoTimerDue
    /\ \E d \in Dues :
        /\ \A e \in Dues : d <= e
        /\ d <= HorizonBati
        /\ now' = d
    /\ UNCHANGED <<fixed, lastKnownStatus, sess, startTimers, startLookups,
                   ticks, users, gate, world, confirmed, pairHist, sampleHist,
                   queries, calls, bati, stopped>>

(* every call to the Presence Source and to the ledger is answered before  *)
(* the clock moves                                                         *)
AdvancePrompt ==
    /\ \A i \in 1..Len(ticks) : ticks[i].pc = "wait"
    /\ AdvanceToTimer

(* the source answers the first MaxPairs ticks with a player record whose  *)
(* status is the same in both samples, and after them it cannot be         *)
(* reached: every query throws                                             *)
SourceCalm ==
    IF Len(pairs) < MaxPairs THEN allAgree'
    ELSE \A i \in 1..Len(ticks') : ticks'[i].pc \in {"first", "write"}

Monitor1Calm == Monitor1 /\ SourceCalm

(* draft 1 with the bati command arriving, followed over one BATI_RESET *)
NextBati == Monitor1Calm \/ CmdBati \/ BatiTimerFires \/ AdvancePrompt

SpecBati == InitD1 /\ [][NextBati]_vars

(* draft 1 followed tick by tick, for MaxTicks ticks *)
Monitor1Seq == Monitor1 /\ queries'.first <= MaxTicks

NextD1Seq == Monitor1Seq \/ AdvancePrompt

SpecD1Seq == InitD1 /\ [][NextD1Seq]_vars

(* draft 1 tracking an identity that is and stays online, the ledger       *)
(* holding no record of it or the record createUser made                   *)
InitD1Online ==
    \E coll \in {<<>>, <<NewUser>>} :
        InitAt(1, startMonitoring1(NoSess, Epoch), coll, <<>>, <<"start">>,
               "online")

(* every sample the source answers is the real status, with the player     *)
(* record                                                                  *)
SourceTruthful == lastSample' \in {lastSample, presence}

(* failures are transient: after the first MaxFailTicks ticks every query  *)
(* is answered and every ledger write is applied                           *)
FailuresTransient ==
    (queries.first > MaxFailTicks /\ ticks # <<>>) =>
        CASE ticks[1].pc = "first" -> ticks' # <<>>
          [] ticks[1].pc = "second" -> Len(pairs') > Len(pairs)
          [] ticks[1].pc = "write" -> users' # users
          [] OTHER -> TRUE

Monitor1Live == Monitor1Seq /\ SourceTruthful /\ FailuresTransient

NextD1Live == Monitor1Live \/ AdvancePrompt

(* ticks are scheduled fairly: a step that can be taken is taken *)
SpecD1Live ==
    InitD1Online /\ [][NextD1Live]_vars /\ WF_vars(NextD1Live)

-----------------------------------------------------------------------------
(* Drafts 2 and 3: the session.  Their monitorStatus (lines 443-470 and    *)
(* 686-708) reads and writes none of isMonitoringActive, monitoringInterval*)
(* and the timers; of a tick, only its start is kept here.                 *)

(* draft 2 has no init(): nothing monitors until a start command; the      *)
(* ledger holds the records of earlier registrations                       *)
InitD2 ==
    \E coll \in {<<>>, <<NewUser2(1)>>, <<NewUser2(1), NewUser2(2)>>} :
        InitWith(2, NoSess, coll, <<>>, <<>>)

(* draft 3 after init(), which ends in startMonitoring (line 754) *)
InitD3 == InitWith(3, startMonitoring2(NoSess, Epoch), <<NewUser>>, <<>>, <<"start">>)

(* draft 3's start command (lines 730-733) *)
CmdStart3 ==
    /\ draft = 3
    /\ SetSess(startMonitoring(draft, Sess, now))
    /\ Called("start")
    /\ stopped' = FALSE
    /\ UNCHANGED <<fixed, now, lastKnownStatus, startTimers, startLookups,
                   ticks, users, gate, world, confirmed, pairHist, sampleHist,
                   queries, bati>>

(* draft 2's start command (lines 493-503) first looks the sender up *)
CmdStart2 ==
    /\ Running
    /\ draft = 2
    /\ startLookups < MaxLookups
    /\ startLookups' = startLookups + 1
    /\ stopped' = FALSE
    /\ UNCHANGED <<fixed, now, lastKnownStatus, sess, startTimers, ticks,
                   users, gate, world, confirmed, pairHist, sampleHist,
                   queries, calls, bati>>

(* the lookup settles: a registered sender starts monitoring *)
StartLookupReturns2 ==
    /\ draft = 2
    /\ startLookups > 0
    /\ startLookups' = startLookups - 1
    /\ \E existingUser \in BOOLEAN :
        IF existingUser
        THEN SetSess(startMonitoring(draft, Sess, now)) /\ Called("start")
        ELSE UNCHANGED <<sess, calls>>
    /\ UNCHANGED <<fixed, now, lastKnownStatus, startTimers, ticks, users,
                   gate, world, confirmed, pairHist, sampleHist, queries, bati,
                   stopped>>

(* the interval timer fires and monitorStatus starts *)
IntervalFires23 ==
    /\ draft \in {2, 3}
    /\ \E t \in intervals :
        /\ t.due <= now
        /\ intervals' = (intervals \ {t}) \cup {[t EXCEPT !.due = @ + POLL_INTERVAL]}
    /\ queries' = [queries EXCEPT !.first = @ + 1]
    /\ UNCHANGED <<fixed, now, lastKnownStatus, isMonitoringActive,
                   monitoringInterval, startTimers, startLookups, ticks, users,
                   gate, world, confirmed, pairHist, sampleHist, calls, bati,
                   stopped>>

NextD23 == CmdStart2 \/ StartLookupReturns2 \/ CmdStart3 \/ IntervalFires23

-----------------------------------------------------------------------------
(* Drafts 2 and 3: sendTelegramMessage behind the cooldown gate (lines     *)
(* 417-428 and 624-637).  A call inside the cooldown returns; any other    *)
(* stamps lastMessageTime and dispatches, and a rejected dispatch is       *)
(* caught and logged.  The sink keeps, for each dispatch, when it was      *)
(* attempted and whether it was rejected.                                  *)

(* the gate without its cooldown test *)
sendTelegramMessage2_noGate(msg, seq) ==
    /\ lastMessageTime' = now
    /\ \E failed \in BOOLEAN :
          sink' = Append(sink, [msg |-> msg, seq |-> seq, at |-> now,
                                failed |-> failed])

(* the gate with a rejected dispatch giving lastMessageTime back *)
sendTelegramMessage2_rollback(msg, seq) ==
    IF now - lastMessageTime < COOLDOWN THEN UNCHANGED gate
    ELSE \E failed \in BOOLEAN :
          /\ lastMessageTime' = IF failed THEN lastMessageTime ELSE now
          /\ sink' = Append(sink, [msg |-> msg, seq |-> seq, at |-> now,
                                   failed |-> failed])

sendTelegramMessage2(msg, seq) ==
    IF now - lastMessageTime < COOLDOWN THEN UNCHANGED gate
    ELSE /\ lastMessageTime' = now
         /\ \E failed \in BOOLEAN :
               sink' = Append(sink, [msg |-> msg, seq |-> seq, at |-> now,
                                     failed |-> failed])

-----------------------------------------------------------------------------
(* Draft 3: monitorStatus (lines 686-708) takes one sample and compares it *)
(* with lastKnownStatus; it writes nothing to the ledger.                  *)

(* the interval timer fires: monitorStatus issues its query (line 688) *)
IntervalFires3 ==
    /\ draft = 3
    /\ \E t \in intervals :
        /\ t.due <= now
        /\ intervals' = (intervals \ {t}) \cup {[t EXCEPT !.due = @ + POLL_INTERVAL]}
    /\ ticks' = Append(ticks, Tick("query", "null", 0, "null", NoEntry, FALSE))
    /\ queries' = [queries EXCEPT !.first = @ + 1]
    /\ UNCHANGED <<fixed, now, lastKnownStatus, isMonitoringActive,
                   monitoringInterval, startTimers, startLookups, users, gate,
                   world, confirmed, pairHist, sampleHist, calls, bati,
                   stopped>>

(* the query settles (lines 688-704): a throw is caught, an answer without *)
(* a player returns, a status other than lastKnownStatus is taken over and *)
(* announced                                                               *)
QueryReturns3 ==
    /\ draft = 3
    /\ \E i \in 1..Len(ticks), resp \in Responses :
        /\ ticks[i].pc = "query"
        /\ ticks' = Remove(ticks, i)
        /\ IF resp.ok /\ HasPlayer(resp)
              /\ lastKnownStatus # StatusOf(resp.players[1].personastate)
           THEN LET steamStatus == StatusOf(resp.players[1].personastate) IN
                /\ lastKnownStatus' = steamStatus
                /\ sendTelegramMessage2(steamStatus, Len(confirmed) + 1)
                /\ confirmed' = Append(confirmed,
                       [status |-> steamStatus, prev |-> lastKnownStatus,
                        first |-> steamStatus, second |-> steamStatus,
                        players |-> TRUE])
           ELSE UNCHANGED <<lastKnownStatus, gate, confirmed>>
    /\ UNCHANGED <<fixed, now, sess, startTimers, startLookups, users, world,
                   pairHist, sampleHist, queries, calls, bati, stopped>>

(* draft 3 left to monitor, no command arriving *)
NextD3 == IntervalFires3 \/ QueryReturns3 \/ Advance

SpecD3 == InitD3 /\ [][NextD3]_vars

-----------------------------------------------------------------------------
(* Draft 2: users register through the bot, one record per telegramId      *)
(* (unique index, line 362); steamId is indexed but not unique (line 375). *)
(* monitorStatus (lines 443-470) reads every record and handles them one   *)
(* after the other.                                                        *)

HasTelegram(coll, tg) == \E i \in 1..Len(coll) : coll[i].telegramId = tg

(* a save that sets steamStatus and loses the pushed entry *)
saveUser2_statusOnly(coll, tg, entry) ==
    [i \in 1..Len(coll) |->
        IF coll[i].telegramId = tg
        THEN [coll[i] EXCEPT !.steamStatus = entry.status]
        ELSE coll[i]]

(* user.save() of a document read earlier, after a push to statusHistory   *)
(* and an assignment to steamStatus (lines 460-462)                        *)
saveUser2(coll, tg, entry) ==
    [i \in 1..Len(coll) |->
        IF coll[i].telegramId = tg
        THEN [coll[i] EXCEPT !.steamStatus = entry.status,
                             !.statusHistory = Append(@, entry)]
        ELSE coll[i]]

(* what monitorStatus keeps of the documents User.find returned *)
Docs(coll) == [i \in 1..Len(coll) |->
                  [telegramId |-> coll[i].telegramId,
                   steamStatus |-> coll[i].steamStatus]]

(* a monitorStatus invocation: its documents, the one it is handling, the  *)
(* attempt of fetchWithRetry, the end of its retry wait, the entry pushed  *)
Tick2(pc, docs, k, attempt, due, entry) ==
    [pc |-> pc, docs |-> docs, k |-> k, attempt |-> attempt, due |-> due,
     entry |-> entry]

(* the for loop goes on to the next document, or the invocation ends *)
Continue2(i) ==
    ticks' = IF ticks[i].k < Len(ticks[i].docs)
             THEN [ticks EXCEPT ![i] =
                     Tick2("query", ticks[i].docs, ticks[i].k + 1, 1, 0, NoEntry)]
             ELSE Remove(ticks, i)

(* the register command (lines 523-537), up to await User.findOne; the     *)
(* profile URL resolves to the one identity                                *)
CmdRegister2 ==
    /\ draft = 2
    /\ Cardinality({i \in 1..Len(ticks) : ticks[i].pc \in {"rFindOne", "rSave"}})
          < MaxRegs
    /\ \E tg \in TelegramIds :
          ticks' = Append(ticks, [pc |-> "rFindOne", telegramId |-> tg])
    /\ UNCHANGED <<fixed, now, lastKnownStatus, sess, startTimers,
                   startLookups, users, gate, world, confirmed, pairHist,
                   sampleHist, queries, calls, bati, stopped>>

(* findOne({telegramId}) settles (lines 537-543) *)
RegisterFindReturns2 ==
    /\ draft = 2
    /\ \E i \in 1..Len(ticks), ok \in BOOLEAN :
        /\ ticks[i].pc = "rFindOne"
        /\ ticks' = IF ok /\ ~HasTelegram(users, ticks[i].telegramId)
                    THEN [ticks EXCEPT ![i].pc = "rSave"]
                    ELSE Remove(ticks, i)
    /\ UNCHANGED <<fixed, now, lastKnownStatus, sess, startTimers,
                   startLookups, users, gate, world, confirmed, pairHist,
                   sampleHist, queries, calls, bati, stopped>>

(* the save of the new record settles (line 540); the unique index on      *)
(* telegramId rejects a second record of the same sender                   *)
RegisterSaveReturns2 ==
    /\ draft = 2
    /\ \E i \in 1..Len(ticks), ok \in BOOLEAN :
        /\ ticks[i].pc = "rSave"
        /\ users' = IF ok /\ ~HasTelegram(users, ticks[i].telegramId)
                    THEN Append(users, NewUser2(ticks[i].telegramId))
                    ELSE users
        /\ ticks' = Remove(ticks, i)
    /\ UNCHANGED <<fixed, now, lastKnownStatus, sess, startTimers,
                   startLookups, gate, world, confirmed, pairHist, sampleHist,
                   queries, calls, bati, stopped>>

(* the interval timer fires: monitorStatus issues User.find({}) (line 444) *)
IntervalFires2 ==
    /\ draft = 2
    /\ \E t \in intervals :
        /\ t.due <= now
        /\ intervals' = (intervals \ {t}) \cup {[t EXCEPT !.due = @ + POLL_INTERVAL]}
    /\ ticks' = Append(ticks, Tick2("find", <<>>, 0, 0, 0, NoEntry))
    /\ queries' = [queries EXCEPT !.first = @ + 1]
    /\ UNCHANGED <<fixed, now, lastKnownStatus, isMonitoringActive,
                   monitoringInterval, startTimers, startLookups, users, gate,
                   world, confirmed, pairHist, sampleHist, calls, bati,
                   stopped>>

(* User.find({}) settles (line 444).  The await stands outside the try of  *)
(* the loop, so its rejection rejects the promise of monitorStatus, which  *)
(* nothing handles: the runtime either reports it and goes on, or ends     *)
(* the process, with it every timer and task.                              *)
FindReturns2 ==
    /\ draft = 2
    /\ \E i \in 1..Len(ticks), ok \in BOOLEAN, exits \in BOOLEAN :
        /\ ticks[i].pc = "find"
        /\ IF ok
           THEN /\ ticks' = IF users = <<>> THEN Remove(ticks, i)
                            ELSE [ticks EXCEPT ![i] =
                                    Tick2("query", Docs(users), 1, 1, 0, NoEntry)]
                /\ UNCHANGED <<initPc, sess, startTimers, startLookups>>
           ELSE IF exits
           THEN /\ initPc' = "exited"
                /\ ticks' = <<>>
                /\ SetSess(NoSess)
                /\ startTimers' = <<>>
                /\ startLookups' = 0
           ELSE /\ ticks' = Remove(ticks, i)
                /\ UNCHANGED <<initPc, sess, startTimers, startLookups>>
    /\ UNCHANGED <<draft, steamId, now, lastKnownStatus, users, gate, world,
                   confirmed, pairHist, sampleHist, queries, calls, bati,
                   stopped>>

(* an attempt of fetchWithRetry settles (lines 404-415, 447-465): a throw  *)
(* is retried after RETRY_DELAY until the last attempt, whose throw the    *)
(* catch of line 466 takes; an answer without a player skips the document; *)
(* a status other than the document's is pushed and saved                  *)
QueryReturns2 ==
    /\ draft = 2
    /\ \E i \in 1..Len(ticks), resp \in Responses :
        /\ ticks[i].pc = "query"
        /\ IF ~resp.ok
           THEN /\ IF ticks[i].attempt < RETRIES
                   THEN ticks' = [ticks EXCEPT ![i].pc = "wait",
                                               ![i].due = now + RETRY_DELAY]
                   ELSE Continue2(i)
                /\ UNCHANGED confirmed
           ELSE IF HasPlayer(resp)
                   /\ ticks[i].docs[ticks[i].k].steamStatus
                         # StatusOf(resp.players[1].personastate)
           THEN LET steamStatus == StatusOf(resp.players[1].personastate)
                    doc == ticks[i].docs[ticks[i].k] IN
                /\ ticks' = [ticks EXCEPT ![i].pc = "save",
                                ![i].entry = Entry(steamStatus, Len(confirmed) + 1)]
                /\ confirmed' = Append(confirmed,
                       [status |-> steamStatus, prev |-> doc.steamStatus,
                        first |-> steamStatus, second |-> steamStatus,
                        players |-> TRUE])
           ELSE Continue2(i) /\ UNCHANGED confirmed
    /\ UNCHANGED <<fixed, now, lastKnownStatus, sess, startTimers,
                   startLookups, users, gate, world, pairHist, sampleHist,
                   queries, calls, bati, stopped>>

(* the next attempt is issued without the wait being over *)
RetryWaitElapsed2_early ==
    /\ draft = 2
    /\ \E i \in 1..Len(ticks) :
        /\ ticks[i].pc = "wait"
        /\ ticks' = [ticks EXCEPT ![i].pc = "query",
                                  ![i].attempt = @ + 1]
    /\ UNCHANGED <<fixed, now, lastKnownStatus, sess, startTimers,
                   startLookups, users, gate, world, confirmed, pairHist,
                   sampleHist, queries, calls, bati, stopped>>

(* the wait of line 412 is over: the next attempt is issued *)
RetryWaitElapsed2 ==
    /\ draft = 2
    /\ \E i \in 1..Len(ticks) :
        /\ ticks[i].pc = "wait"
        /\ ticks[i].due <= now
        /\ ticks' = [ticks EXCEPT ![i].pc = "query",
                                  ![i].attempt = @ + 1]
    /\ UNCHANGED <<fixed, now, lastKnownStatus, sess, startTimers,
                   startLookups, users, gate, world, confirmed, pairHist,
                   sampleHist, queries, calls, bati, stopped>>

(* user.save() settles (lines 462-468): once saved, the notification is    *)
(* handed to the gate; a rejection is caught and the loop goes on          *)
SaveReturns2 ==
    /\ draft = 2
    /\ \E i \in 1..Len(ticks), ok \in BOOLEAN :
        /\ ticks[i].pc = "save"
        /\ IF ok
           THEN /\ users' = saveUser2(users, ticks[i].docs[ticks[i].k].telegramId,
                                      ticks[i].entry)
                /\ sendTelegramMessage2(ticks[i].entry.status, ticks[i].entry.seq)
           ELSE UNCHANGED <<users, gate>>
        /\ Continue2(i)
    /\ UNCHANGED <<fixed, now, lastKnownStatus, sess, startTimers,
                   startLookups, world, confirmed, pairHist, sampleHist,
                   queries, calls, bati, stopped>>

Register2 == CmdRegister2 \/ RegisterFindReturns2 \/ RegisterSaveReturns2

Monitor2 ==
    \/ IntervalFires2 \/ FindReturns2 \/ QueryReturns2
    \/ RetryWaitElapsed2 \/ SaveReturns2

(* draft 2 with start commands arriving; once started it is left to       *)
(* monitor the registered identities                                       *)
NextD2 == Monitor2 \/ CmdStart2 \/ StartLookupReturns2 \/ Advance

SpecD2 == InitD2 /\ [][NextD2]_vars

(* draft 2 with registrations arriving *)
NextD2Reg == Register2 \/ Advance

SpecD2Reg == InitD2 /\ [][NextD2Reg]_vars

(* drafts 2 and 3: the callers of the gated sendTelegramMessage *)
InitGate == InitD2 \/ InitD3

NextGate == NextD2 \/ NextD3

SpecGate == InitGate /\ [][NextGate]_vars

-----------------------------------------------------------------------------
(* Drafts 1 and 3 from the start of the process: init() (lines 315-321 and *)
(* 749-755) resolves the identity, fetches the user name, creates the      *)
(* record and calls startMonitoring, while the bot already takes commands  *)
(* (bot.launch() at lines 303 and 746 comes first).                        *)

(* the process has just started: init() waits for resolveSteamId *)
InitUnresolved ==
    \E d \in {1, 3}, coll \in {<<>>, <<NewUser>>} :
        InitFrom(d, NoSess, coll, <<>>, <<>>, "offline", "undefined", "resolve")

(* resolveSteamId settles (lines 316-317, 750-751): it returns the         *)
(* identity, or null, on which init() returns                              *)
InitResolveReturns ==
    /\ draft \in {1, 3}
    /\ initPc = "resolve"
    /\ \E id \in {"id", "null"} :
        /\ steamId' = id
        /\ initPc' = IF id = "null" THEN "done" ELSE "username"
    /\ UNCHANGED <<draft, now, lastKnownStatus, sess, startTimers,
                   startLookups, ticks, users, gate, world, confirmed,
                   pairHist, sampleHist, queries, calls, bati, stopped>>

(* fetchUsername settles (lines 318, 752); it catches its own errors, and  *)
(* createUser issues findOne                                               *)
InitUsernameReturns ==
    /\ draft \in {1, 3}
    /\ initPc = "username"
    /\ initPc' = "findOne"
    /\ UNCHANGED <<draft, steamId, now, lastKnownStatus, sess, startTimers,
                   startLookups, ticks, users, gate, world, confirmed,
                   pairHist, sampleHist, queries, calls, bati, stopped>>

(* the last lines of init(): startMonitoring is called and init() returns *)
InitStarts ==
    /\ SetSess(startMonitoring(draft, Sess, now))
    /\ Called("start")
    /\ initPc' = "done"

(* createUser's findOne settles (lines 101-102, 658-660).  The await is    *)
(* outside the try: a rejection rejects init(), which nothing handles, and *)
(* the runtime either reports it and goes on or ends the process.  A       *)
(* record found ends createUser and init() starts monitoring.              *)
InitFindOneReturns ==
    /\ draft \in {1, 3}
    /\ initPc = "findOne"
    /\ \E ok \in BOOLEAN, exits \in BOOLEAN :
        IF ok
        THEN /\ IF HasUser(users, steamId) THEN InitStarts
                ELSE initPc' = "save" /\ UNCHANGED <<sess, calls>>
             /\ UNCHANGED <<startTimers, ticks>>
        ELSE IF exits
        THEN /\ initPc' = "exited"
             /\ SetSess(NoSess)
             /\ startTimers' = <<>>
             /\ ticks' = <<>>
             /\ UNCHANGED calls
        ELSE /\ initPc' = "done"
             /\ UNCHANGED <<sess, calls, startTimers, ticks>>
    /\ UNCHANGED <<draft, steamId, now, lastKnownStatus, startLookups, users,
                   gate, world, confirmed, pairHist, sampleHist, queries,
                   bati, stopped>>

(* the save of the new record settles (lines 103-108, 662-668); a          *)
(* rejection is caught, and init() starts monitoring                       *)
InitSaveReturns ==
    /\ draft \in {1, 3}
    /\ initPc = "save"
    /\ \E ok \in BOOLEAN :
        users' = IF ok THEN Append(users, NewUser) ELSE users
    /\ InitStarts
    /\ UNCHANGED <<draft, steamId, now, lastKnownStatus, startTimers,
                   startLookups, ticks, gate, world, confirmed, pairHist,
                   sampleHist, queries, bati, stopped>>

InitSteps ==
    \/ InitResolveReturns \/ InitUsernameReturns
    \/ InitFindOneReturns \/ InitSaveReturns

Resolved == steamId = "id"

(* a query that names no identity is answered with no player record, or    *)
(* not at all                                                              *)
NoPlayerUnresolved ==
    ~Resolved =>
        /\ lastSample' \in {lastSample, "offline"}
        /\ \A i \in 1..Len(ticks') :
              ticks'[i].pc = "wait" => ~ticks'[i].player
        /\ draft = 3 => confirmed' = confirmed

MonitorFromStart ==
    /\ Monitor1 \/ IntervalFires3 \/ QueryReturns3
    /\ NoPlayerUnresolved

(* the clock, followed for EarlySteps steps *)
AdvanceEarly == Advance /\ now' <= Epoch + EarlySteps * TimeStep(draft)

(* drafts 1 and 3 from the start of the process, with start and restart    *)
(* commands arriving                                                       *)
NextFromStart ==
    \/ InitSteps \/ MonitorFromStart
    \/ CmdRestart \/ CmdStart3 \/ StartTimerFires \/ AdvanceEarly

SpecFromStart == InitUnresolved /\ [][NextFromStart]_vars

-----------------------------------------------------------------------------
(* Draft 4: no lastKnownStatus; monitorStatus and the check that follows   *)
(* startMonitoring compare the sample with the steamStatus of the ledger.  *)

(* draft 4 after init() has called startMonitoring (line 977): monitoring  *)
(* is active and the start check waits for its findOne.  Draft 4 creates   *)
(* no record; it tracks one that an earlier run has left.                  *)
InitD4 ==
    \E coll \in {<<>>, <<NewUser>>} :
        InitWith(4, startMonitoring4(NoSess, Epoch), coll,
                 <<Tick("cFindOne", "null", 0, "null", NoEntry, FALSE)>>,
                 <<"start">>)

(* the source answers with the real status, with no player, or not at all *)
Answers4 == {r \in Responses :
    HasPlayer(r) => StatusOf(r.players[1].personastate) = presence}

(* lines 851-858: no cooldown, no lastMessageTime *)
sendTelegramMessage4(msg, seq) ==
    /\ sink' = Append(sink, [msg |-> msg, seq |-> seq])
    /\ UNCHANGED lastMessageTime

(* lines 891-895 and 928-932: the sample differs from the status read, so  *)
(* the task pushes an entry and saves                                      *)
Record4(i, st, doc) ==
    /\ ticks' = [ticks EXCEPT ![i] =
           Tick("save", st, 0, doc, Entry(st, Len(confirmed) + 1), TRUE)]
    /\ confirmed' = Append(confirmed,
           [status |-> st, prev |-> doc, first |-> st, second |-> st,
            players |-> TRUE])

(* the start command (lines 960-963) *)
CmdStart4 ==
    /\ draft = 4
    /\ StartsCheck(draft, Sess) =>
           Len(ticks) < MaxChecks /\ Len(confirmed) < MaxMsgs
    /\ SetSess(startMonitoring(draft, Sess, now))
    /\ Called("start")
    /\ ticks' = IF StartsCheck(draft, Sess)
                THEN Append(ticks, Tick("cFindOne", "null", 0, "null", NoEntry, FALSE))
                ELSE ticks
    /\ stopped' = FALSE
    /\ UNCHANGED <<fixed, now, lastKnownStatus, startTimers, startLookups,
                   users, gate, world, confirmed, pairHist, sampleHist,
                   queries, bati>>

(* the start check's findOne settles (line 918); startMonitoring has no    *)
(* catch, a rejection ends the check                                       *)
CheckFindOneReturns4 ==
    /\ draft = 4
    /\ \E i \in 1..Len(ticks), ok \in BOOLEAN :
        /\ ticks[i].pc = "cFindOne"
        /\ ticks' = IF ok /\ HasUser(users, steamId)
                    THEN [ticks EXCEPT ![i] =
                            Tick("cQuery", "null", 0,
                                 users[FirstUser(users, steamId)].steamStatus,
                                 NoEntry, FALSE)]
                    ELSE Remove(ticks, i)
    /\ UNCHANGED <<fixed, now, lastKnownStatus, sess, startTimers,
                   startLookups, users, gate, world, confirmed, pairHist,
                   sampleHist, queries, calls, bati, stopped>>

(* the start check's query settles (lines 920-933) *)
CheckQueryReturns4 ==
    /\ draft = 4
    /\ \E i \in 1..Len(ticks), resp \in Answers4 :
        /\ ticks[i].pc = "cQuery"
        /\ IF resp.ok /\ HasPlayer(resp)
              /\ ticks[i].doc # StatusOf(resp.players[1].personastate)
           THEN Record4(i, StatusOf(resp.players[1].personastate), ticks[i].doc)
           ELSE ticks' = Remove(ticks, i) /\ UNCHANGED confirmed
    /\ UNCHANGED <<fixed, now, lastKnownStatus, sess, startTimers,
                   startLookups, users, gate, world, pairHist, sampleHist,
                   queries, calls, bati, stopped>>

(* the interval timer fires: monitorStatus issues its query (line 879) *)
IntervalFires4 ==
    /\ draft = 4
    /\ \E t \in intervals :
        /\ t.due <= now
        /\ intervals' = (intervals \ {t}) \cup {[t EXCEPT !.due = @ + POLL_INTERVAL]}
    /\ ticks' = Append(ticks, Tick("query", "null", 0, "null", NoEntry, FALSE))
    /\ queries' = [queries EXCEPT !.first = @ + 1]
    /\ UNCHANGED <<fixed, now, lastKnownStatus, isMonitoringActive,
                   monitoringInterval, startTimers, startLookups, users, gate,
                   world, confirmed, pairHist, sampleHist, calls, bati,
                   stopped>>

(* the tick's query settles (lines 879-886): a throw is caught, an answer  *)
(* without a player returns, otherwise the ledger is read                  *)
QueryReturns4 ==
    /\ draft = 4
    /\ \E i \in 1..Len(ticks), resp \in Answers4 :
        /\ ticks[i].pc = "query"
        /\ ticks' = IF resp.ok /\ HasPlayer(resp)
                    THEN [ticks EXCEPT ![i] =
                            Tick("findOne", StatusOf(resp.players[1].personastate),
                                 0, "null", NoEntry, TRUE)]
                    ELSE Remove(ticks, i)
    /\ UNCHANGED <<fixed, now, lastKnownStatus, sess, startTimers,
                   startLookups, users, gate, world, confirmed, pairHist,
                   sampleHist, queries, calls, bati, stopped>>

(* the tick's findOne settles (lines 886-896) *)
FindOneReturns4 ==
    /\ draft = 4
    /\ \E i \in 1..Len(ticks), ok \in BOOLEAN :
        /\ ticks[i].pc = "findOne"
        /\ IF ok /\ HasUser(users, steamId)
              /\ users[FirstUser(users, steamId)].steamStatus # ticks[i].first
           THEN Record4(i, ticks[i].first,
                        users[FirstUser(users, steamId)].steamStatus)
           ELSE ticks' = Remove(ticks, i) /\ UNCHANGED confirmed
    /\ UNCHANGED <<fixed, now, lastKnownStatus, sess, startTimers,
                   startLookups, users, gate, world, pairHist, sampleHist,
                   queries, calls, bati, stopped>>

(* user.save() settles (lines 896-904 and 933-941): once saved, the        *)
(* notification is dispatched                                              *)
SaveReturns4 ==
    /\ draft = 4
    /\ \E i \in 1..Len(ticks), ok \in BOOLEAN :
        /\ ticks[i].pc = "save"
        /\ IF ok /\ HasUser(users, steamId)
           THEN /\ users' = saveUser(users, steamId, ticks[i].entry)
                /\ sendTelegramMessage4(ticks[i].entry.status, ticks[i].entry.seq)
           ELSE UNCHANGED <<users, gate>>
        /\ ticks' = Remove(ticks, i)
    /\ UNCHANGED <<fixed, now, lastKnownStatus, sess, startTimers,
                   startLookups, world, confirmed, pairHist, sampleHist,
                   queries, calls, bati, stopped>>

(* the tracked identity goes online or offline *)
PresenceChanges ==
    /\ draft = 4
    /\ changes < MaxChanges
    /\ presence' = IF presence = "online" THEN "offline" ELSE "online"
    /\ changes' = changes + 1
    /\ UNCHANGED <<fixed, now, lastKnownStatus, sess, startTimers,
                   startLookups, ticks, users, gate, confirmed, pairHist,
                   sampleHist, queries, calls, bati, stopped>>

NextD4 ==
    \/ CmdStart4 \/ CheckFindOneReturns4 \/ CheckQueryReturns4
    \/ IntervalFires4 \/ QueryReturns4 \/ FindOneReturns4 \/ SaveReturns4
    \/ PresenceChanges \/ CmdStop \/ Advance

SpecD4 == InitD4 /\ [][NextD4]_vars

-----------------------------------------------------------------------------
(* Every draft *)

Init == InitD1 \/ InitD2 \/ InitD3 \/ InitD4

Next == NextD1 \/ NextD23 \/ NextD4

Spec == Init /\ [][Next]_vars

-----------------------------------------------------------------------------
(* What the claims speak of *)

(* the tracked identity's statusHistory in the ledger *)
History ==
    IF HasUser(users, steamId)
    THEN users[FirstUser(users, steamId)].statusHistory ELSE <<>>

StatusesOf(log) == [k \in 1..Len(log) |-> log[k].status]

SeqsOf(log) == [k \in 1..Len(log) |-> log[k].seq]

(* every transition recorded so far rests on two answers that held a       *)
(* player record                                                           *)
FromPlayers == \A k \in 1..Len(confirmed) : confirmed[k].players

WriteInFlight == \E i \in 1..Len(ticks) : ticks[i].pc = "write"

(* a sequence of statuses with the repeats of its predecessor dropped,    *)
(* the predecessor of the first being last                                 *)
RECURSIVE Collapse(_, _)
Collapse(seq, last) ==
    IF seq = <<>> THEN <<>>
    ELSE IF Head(seq) = last THEN Collapse(Tail(seq), last)
    ELSE <<Head(seq)>> \o Collapse(Tail(seq), Head(seq))

-----------------------------------------------------------------------------
(* C1: every transition the draft 1 monitor records comes from a tick     *)
(* whose two samples are equal and differ from lastKnownStatus, and while  *)
(* every answer of the source holds a player record and differs from the   *)
(* answer before it, no transition is recorded.                            *)
C1_Claim ==
    /\ \A k \in 1..Len(confirmed) :
        /\ confirmed[k].first = confirmed[k].second
        /\ confirmed[k].first # confirmed[k].prev
    /\ alternating => confirmed = <<>>

(* C2: when every answer so far has held a player record and every pair    *)
(* has agreed, the statuses recorded are the agreed statuses with repeats  *)
(* collapsed, starting from OFFLINE.                                       *)
C2_Claim ==
    allAgree => StatusesOf(confirmed) = Collapse(pairs, "offline")

(* C3: the statusHistory holds the confirmed transitions in the order of   *)
(* their confirmation, and all of them once no write is in flight (the     *)
(* transitions being confirmed on answers that held a player record).      *)
C3_Claim ==
    FromPlayers =>
        /\ \A j, k \in 1..Len(History) : j < k => History[j].seq < History[k].seq
        /\ ~WriteInFlight => SeqsOf(History) = [k \in 1..Len(confirmed) |-> k]

(* C4: a dispatch is attempted on the sink only when COOLDOWN has passed   *)
(* since the dispatch before it.                                           *)
C4_Claim ==
    [][(Len(sink') > Len(sink) /\ sink # <<>>)
          => now - lastMessageTime >= COOLDOWN]_vars

(* C5: when the notification of a transition is dispatched, the ledger     *)
(* already holds the history entry of that transition (the transition      *)
(* being confirmed on answers that held a player record).                  *)
C5_Claim ==
    [][\A k \in 1..Len(sink') :
          (k > Len(sink) /\ sink'[k].seq # 0 /\ FromPlayers')
              => \E j \in 1..Len(History) : History[j].seq = sink'[k].seq]_vars

(* C6: in draft 4 the statusHistory holds no more entries, and the sink    *)
(* has been asked for no more dispatches, than the real status has         *)
(* changed.                                                                *)
C6_Claim ==
    draft = 4 => (Len(History) <= changes /\ Len(sink) <= changes)

(* C7: from every state a second call of startMonitoring returns the       *)
(* state the first call left, in which monitoring is active on exactly     *)
(* one interval and no further start check is begun; and whenever the      *)
(* last two calls were both startMonitoring, monitoring is active on       *)
(* exactly one interval.                                                   *)
C7_Claim ==
    LET s1 == startMonitoring(draft, Sess, now)
        s2 == startMonitoring(draft, s1, now)
    IN  /\ s2 = s1
        /\ s1.active
        /\ Cardinality(s1.live) = 1
        /\ ~StartsCheck(draft, s1)
        /\ calls = <<"start", "start">> =>
               (isMonitoringActive /\ Cardinality(intervals) = 1)

(* C7's case: startMonitoring has been called twice in a row *)
C7_Witness ==
    /\ calls = <<"start", "start">>
    /\ isMonitoringActive
    /\ Cardinality(intervals) = 1

(* C8: the step in which a restart delay elapses leaves monitoring active  *)
(* on exactly one interval.                                                *)
C8_Claim ==
    [][Len(startTimers') < Len(startTimers)
          => (isMonitoringActive' /\ Cardinality(intervals') = 1)]_vars

(* C8's case: draft 1 has only the restart command, so its last two calls  *)
(* are the stop of a restart and the start at the end of the delay         *)
C8_Witness ==
    /\ draft = 1
    /\ calls = <<"stop", "start">>
    /\ startTimers = <<>>
    /\ now >= Epoch + RESTART_DELAY
    /\ isMonitoringActive
    /\ Cardinality(intervals) = 1

(* C9, as claimed: while monitoring is stopped no query is issued at all   *)
C9_Claim == [][~isMonitoringActive => queries' = queries]_vars

(* C9, amended: while monitoring is stopped no tick starts, so no first    *)
(* sample is issued; a tick that was in flight at the stop goes on to its  *)
(* second sample.                                                          *)
C9_NoNewTickWhileStopped ==
    [][~isMonitoringActive => (queries'.first = queries.first
                               /\ Len(ticks') <= Len(ticks))]_vars

(* C9's case: monitoring is stopped while a tick sits in its confirmation  *)
(* wait, and a second sample has been issued since                         *)
C9_Witness ==
    /\ ~isMonitoringActive
    /\ \E i \in 1..Len(ticks) : ticks[i].pc = "second"
    /\ calls[Len(calls)] = "stop"

(* a tick of draft 1 ends at one of its two source calls with no answer     *)
(* taken from it: the call threw                                           *)
Throws1 ==
    /\ draft = 1
    /\ \E i \in 1..Len(ticks) :
        /\ ticks[i].pc \in {"first", "second"}
        /\ ticks' = Remove(ticks, i)
    /\ allAgree' = FALSE
    /\ UNCHANGED <<pairs, sampleHist, bati, stopped>>

(* C11: a tick of draft 1 whose first or second source call throws leaves  *)
(* lastKnownStatus, the ledger, the sink, lastMessageTime,                 *)
(* isMonitoringActive and the polling interval as they were.               *)
C11_Claim ==
    [][Throws1 => UNCHANGED <<lastKnownStatus, users, gate, sess>>]_vars

(* C11's case: the only tick so far has ended at its first source call,    *)
(* which can only be by a throw, and monitoring goes on                    *)
C11_Witness ==
    /\ draft = 1
    /\ ticks = <<>>
    /\ queries = [first |-> 1, second |-> 0]
    /\ ~allAgree
    /\ lastKnownStatus = "null"
    /\ sink = <<>>
    /\ isMonitoringActive
    /\ Cardinality(intervals) = 1

(* C12: whenever no ledger write is in flight and the ledger holds the     *)
(* record, lastKnownStatus is still null or equals the record's            *)
(* steamStatus (the transitions being confirmed on answers that held a     *)
(* player record).                                                         *)
C12_Claim ==
    (~WriteInFlight /\ FromPlayers /\ HasUser(users, steamId)
                    /\ lastKnownStatus # "null")
        => users[FirstUser(users, steamId)].steamStatus = lastKnownStatus

(* C16: in draft 1 a record with a non-empty statusHistory has the status   *)
(* of its last entry as its steamStatus.                                   *)
C16_Claim ==
    (draft = 1 /\ History # <<>>) =>
        History[Len(History)].status =
            users[FirstUser(users, steamId)].steamStatus

(* C16's case: the writes of two concurrent ticks have been applied in     *)
(* the reverse of the order in which their transitions were confirmed      *)
C16_Witness ==
    /\ draft = 1
    /\ SeqsOf(History) = <<2, 1>>

(* C19: in draft 1 at most one monitorStatus invocation is in flight.      *)
C19_Claim == draft = 1 => Len(ticks) <= 1

(* C18: in every draft at most one polling interval is scheduled,          *)
(* isMonitoringActive is true exactly when one is, and the scheduled one   *)
(* is the one whose handle monitoringInterval holds.                       *)
C18_Claim ==
    /\ Cardinality(intervals) <= 1
    /\ isMonitoringActive <=> Cardinality(intervals) = 1
    /\ \A t \in intervals : t.id = monitoringInterval

(* C18's case: draft 3 is monitoring on one interval, started by a start   *)
(* command while the delayed starts of two restarts are still pending      *)
C18_Witness ==
    /\ draft = 3
    /\ Len(startTimers) = 2
    /\ calls = <<"stop", "start">>
    /\ isMonitoringActive
    /\ Cardinality(intervals) = 1

(* a step settles the call that invocation i of draft 2's monitorStatus    *)
(* is waiting for                                                          *)
Settles2(i) ==
    /\ ticks[i].pc \in {"find", "query", "save"}
    /\ \/ ticks' = Remove(ticks, i)
       \/ Len(ticks') = Len(ticks) /\ ticks'[i] # ticks[i]

(* C13: in draft 2 no step ends the process; a step that settles a call    *)
(* of a tick leaves isMonitoringActive and the polling interval as they    *)
(* were, and leaves the tick in its loop while documents remain.           *)
C13_Claim ==
    [][draft = 2 =>
        /\ Running => Running'
        /\ \A i \in 1..Len(ticks) : Settles2(i) =>
              /\ UNCHANGED sess
              /\ (ticks[i].pc \in {"query", "save"}
                     /\ ticks[i].k < Len(ticks[i].docs))
                   => Len(ticks') = Len(ticks)]_vars

(* a step of draft 2 or 3 in which sendTelegramMessage is called: draft 3  *)
(* calls it when it takes over a new lastKnownStatus (line 703), draft 2   *)
(* when a save has been applied (line 464)                                 *)
CallsGate ==
    \/ draft = 3 /\ lastKnownStatus' # lastKnownStatus
    \/ draft = 2 /\ users' # users

(* what C14 says of one step of draft 2 or 3 *)
GateStep ==
    /\ CallsGate =>
          IF now - lastMessageTime < COOLDOWN
          THEN UNCHANGED gate
          ELSE /\ Len(sink') = Len(sink) + 1
               /\ SubSeq(sink', 1, Len(sink)) = sink
               /\ sink'[Len(sink')].at = now
               /\ lastMessageTime' = now
    /\ ~CallsGate => UNCHANGED gate
    /\ \A j, k \in 1..Len(sink') :
          j < k => sink'[k].at - sink'[j].at >= COOLDOWN

(* C14: a call of the gated sendTelegramMessage made less than COOLDOWN     *)
(* after lastMessageTime leaves the sink and lastMessageTime as they were; *)
(* any other call adds exactly one dispatch, stamped now, and sets         *)
(* lastMessageTime to now; nothing else touches either; and any two        *)
(* dispatches are at least COOLDOWN apart.                                 *)
C14_Claim == [][(draft \in {2, 3}) => GateStep]_vars

(* C14's case: draft 3 has dispatched twice, and a transition between the  *)
(* two was announced inside the cooldown and dropped                       *)
C14_Witness ==
    /\ draft = 3
    /\ Len(sink) = 2
    /\ sink[2].seq > sink[1].seq + 1
    /\ lastMessageTime = sink[2].at

(* C15: in drafts 2 and 3 a dispatch the sink rejected is not attempted    *)
(* again, lastMessageTime keeps the time of that attempt until the next    *)
(* dispatch, and the next dispatch is at least COOLDOWN later.             *)
C15_Claim ==
    (draft \in {2, 3}) =>
        \A k \in 1..Len(sink) : sink[k].failed =>
            /\ \A j \in 1..Len(sink) : j # k => sink[j].seq # sink[k].seq
            /\ k = Len(sink) => lastMessageTime = sink[k].at
            /\ k < Len(sink) => sink[k + 1].at - sink[k].at >= COOLDOWN

(* C15's case: in draft 2 the only dispatch was rejected, and a later      *)
(* transition has been saved, so that its message came to the gate and     *)
(* was dropped                                                             *)
C15_Witness ==
    /\ draft = 2
    /\ Len(sink) = 1
    /\ sink[1].failed
    /\ lastMessageTime = sink[1].at
    /\ \E i \in 1..Len(users) : \E h \in 1..Len(users[i].statusHistory) :
          users[i].statusHistory[h].seq > sink[1].seq

(* the tick whose save of its entry this step applies to record r *)
Persists2(i, r) ==
    /\ ticks[i].pc = "save"
    /\ users[r].telegramId = ticks[i].docs[ticks[i].k].telegramId
    /\ users'[r] = [users[r] EXCEPT
                       !.steamStatus = ticks[i].entry.status,
                       !.statusHistory = Append(@, ticks[i].entry)]
    /\ \A q \in 1..Len(users) : q # r => users'[q] = users[q]

(* C20: in draft 2 the ledger changes only by a tick saving its            *)
(* transition (entry appended, steamStatus set), within the cooldown that  *)
(* step leaves the sink alone, and the sink never grows except, in the     *)
(* step of a save, by the message of the entry saved: a notification the   *)
(* cooldown suppressed is not dispatched by any later step.                *)
C20_Claim ==
    [][(draft = 2) =>
         /\ users' # users =>
               /\ Len(users') = Len(users)
               /\ \E i \in 1..Len(ticks), r \in 1..Len(users) :
                     /\ Persists2(i, r)
                     /\ now - lastMessageTime < COOLDOWN => sink' = sink
                     /\ sink' # sink =>
                           /\ Len(sink') = Len(sink) + 1
                           /\ SubSeq(sink', 1, Len(sink)) = sink
                           /\ sink'[Len(sink')].seq = ticks[i].entry.seq
         /\ sink' # sink => users' # users]_vars

(* C20's case: a transition is in the ledger, steamStatus set to it, no    *)
(* dispatch carries its number, and an earlier transition was dispatched   *)
(* less than COOLDOWN before                                               *)
C20_Witness ==
    /\ draft = 2
    /\ Len(sink) = 1
    /\ now - sink[1].at < COOLDOWN
    /\ \E r \in 1..Len(users) :
          LET h == users[r].statusHistory IN
          /\ Len(h) >= 1
          /\ h[Len(h)].seq > sink[1].seq
          /\ users[r].steamStatus = h[Len(h)].status

(* C17: no step adds to the ledger a record for a steamId that a record   *)
(* of the ledger already holds: the record there is reused.                *)
C17_Claim ==
    [][\A i \in (Len(users) + 1)..Len(users') :
          ~HasUser(users, users'[i].steamId)]_vars

(* C21: in draft 1 a transition's dispatch that the sink rejects is        *)
(* attempted once, and in the step that attempts it the tick goes on to    *)
(* issue the ledger write of that transition with the status announced.    *)
C21_Claim ==
    [][(draft = 1) =>
         \A k \in 1..Len(sink') :
            (sink'[k].seq # 0 /\ sink'[k].failed) =>
               /\ \A j \in 1..Len(sink') :
                     j # k => sink'[j].seq # sink'[k].seq
               /\ k > Len(sink) =>
                     /\ Len(ticks') = Len(ticks)
                     /\ \E i \in 1..Len(ticks') :
                           /\ ticks'[i].pc = "write"
                           /\ ticks'[i].entry = Entry(sink'[k].msg, sink'[k].seq)
                           /\ lastKnownStatus' = sink'[k].msg]_vars

(* C21's case: the dispatch of a transition was rejected and the ledger    *)
(* holds the entry of that transition                                      *)
C21_Witness ==
    /\ draft = 1
    /\ \E k \in 1..Len(sink) :
          /\ sink[k].failed
          /\ sink[k].seq # 0
          /\ \E h \in 1..Len(History) :
                History[h] = Entry(sink[k].msg, sink[k].seq)

(* C22: at most one reset timer of the bati command is pending, and count  *)
(* returns to 0 only when BATI_RESET has passed since the command was      *)
(* last invoked.                                                           *)
C22_Claim ==
    [][/\ Cardinality(timeouts') <= 1
       /\ (count # 0 /\ count' = 0) => now - lastBati >= BATI_RESET]_vars

(* C27: in draft 1 any two consecutive entries of the statusHistory have   *)
(* different statuses (the transitions being confirmed on answers that     *)
(* held a player record).                                                  *)
C27_Claim ==
    (draft = 1 /\ FromPlayers) =>
        \A k \in 1..(Len(History) - 1) :
            History[k].status # History[k + 1].status

RetryStep(t, u) ==
    /\ t.pc = "query" =>
          /\ u.pc \in {"wait", "query", "save"}
          /\ u.pc = "wait" =>
                /\ t.attempt < RETRIES
                /\ u.attempt = t.attempt
                /\ u.k = t.k
                /\ u.due = now + RETRY_DELAY
          /\ u.pc = "query" => (u.k = t.k + 1 /\ u.attempt = 1)
          /\ u.pc = "save" => u.k = t.k
    /\ t.pc = "wait" =>
          /\ u.pc = "query"
          /\ u.k = t.k
          /\ u.attempt = t.attempt + 1
          /\ now >= t.due

(* C24: a call of fetchWithRetry makes at most RETRIES attempts; a wait of *)
(* RETRY_DELAY begins only at an attempt that is not the last and ends in  *)
(* the next attempt, not before it is over; an attempt that is answered,   *)
(* and the last attempt, end the call at once.                             *)
C24_Claim ==
    [][(draft = 2) =>
         /\ \A i \in 1..Len(ticks') :
               ticks'[i].pc \in {"query", "wait"} =>
                   ticks'[i].attempt \in 1..RETRIES
         /\ Len(ticks') = Len(ticks) =>
               \A i \in 1..Len(ticks) :
                  (ticks'[i] # ticks[i] /\ ticks[i].pc \in {"query", "wait"})
                      => RetryStep(ticks[i], ticks'[i])
         /\ Len(ticks') < Len(ticks) =>
               \A i \in 1..Len(ticks) :
                  ticks' = Remove(ticks, i) => ticks[i].pc # "wait"]_vars

(* C24's case: two attempts have failed, each followed by its wait, and    *)
(* the last attempt is under way                                           *)
C24_Witness ==
    /\ draft = 2
    /\ \E i \in 1..Len(ticks) :
          /\ ticks[i].pc = "query"
          /\ ticks[i].attempt = RETRIES
          /\ now >= ticks[i].due
          /\ ticks[i].due >= Epoch + (RETRIES - 1) * RETRY_DELAY

(* C25: in drafts 2 and 3, from the stop command on and as long as no      *)
(* start or restart command is issued, monitoring is inactive, no interval *)
(* is scheduled and no tick starts.                                        *)
C25_Claim ==
    [][(draft \in {2, 3}) =>
         /\ stopped' => (~isMonitoringActive' /\ intervals' = {})
         /\ (stopped /\ stopped') => queries'.first = queries.first]_vars

(* C26: in drafts 1 and 3, as long as steamId is not resolved, no polling  *)
(* interval is scheduled, no query is issued on the Presence Source and    *)
(* nothing is written to the ledger.                                       *)
C26_Claim ==
    [][(draft \in {1, 3} /\ ~Resolved') =>
         /\ intervals' = {}
         /\ queries' = queries
         /\ users' = users]_vars

(* C10: no recorded transition rests on an answer without a player record  *)
C10_Claim == FromPlayers
====
